---- MODULE Spec2Model ----
(***************************************************************************)
(* Item persistence layer of go/app: the itemRepository over the two       *)
(* tables items(id, name, category_id, image_name) and                     *)
(* categories(id, name), the image side channel StoreImage, and the        *)
(* multipart request parser exercised by TestParseAddItemRequest.          *)
(*                                                                         *)
(* Every SQL statement is one atomic step on the store.  An Insert call    *)
(* is four such steps (lookup, category insert, re-read, item insert), so  *)
(* two calls running on their own goroutines interleave between them.      *)
(***************************************************************************)
EXTENDS Integers, Sequences, FiniteSets, TLC

\* ------------------------------------------------------------------ bounds
MaxCalls == 2        \* Insert calls started in one behaviour
MaxImageLen == 2     \* bytes in an image payload

Procs == {"p1", "p2"}                 \* two request goroutines
ItemNames == {"X", "Y"}
CategoryNames == {"people", "phone"}
ImageNames == {"x.jpg"}
FileNames == {"x.jpg", "y.jpg"}
Bytes == {0, 1}

\* ------------------------------------------------------------------ errors
Nil == "nil"
ErrNoRows == "sql.ErrNoRows"                 \* database/sql's sentinel
StorageError == "storage error"              \* open / query / exec / scan failure
UniqueViolation == "UNIQUE constraint failed: categories.name"
ValidationError == "validation error"
ErrInvalid == "os.ErrInvalid"

\* ------------------------------------------------------------------ state
VARIABLES
    categories,    \* table categories: sequence of [id, name] in rowid order
    items,         \* table items: sequence of [id, name, category_id, image_name]
    unique,        \* whether the schema enforces UNIQUE on categories.name
    pc,            \* pc[p]: position of p's Insert call
    item,          \* item[p]: the *Item argument of p's Insert call
    category_id,   \* category_id[p]: Insert's local variable
    err,           \* err[p]: what p's Insert call returned
    obs,           \* obs[p]: what the call did (first lookup missed, row id assigned, ...)
    origCategory,  \* origCategory[i]: category name items[i] was inserted with
    calls,         \* Insert calls started so far
    last,          \* the most recent response of a read, parse or store operation
    body,          \* the multipart submission handed to parseAddItemRequest
    files          \* the filesystem: file name -> bytes, for the names that exist

vars == <<categories, items, unique, pc, item, category_id, err, obs,
          origCategory, calls, last, body, files>>

repoVars == <<categories, items, unique, pc, item, category_id, err, obs,
              origCategory, calls>>

\* ------------------------------------------------------------------ values
ZeroItem == [ID |-> 0, Name |-> "", Category |-> "", ImageName |-> ""]

NoResponse == [op |-> "none"]

NoFile == [present |-> FALSE, data |-> <<>>]

\* A multipart body with no part at all.
NoBody == [fields |-> <<>>, file |-> NoFile]

NoObs == [missed |-> FALSE, created |-> FALSE, newId |-> 0, catExecs |-> 0]

Items == [Name : ItemNames, Category : CategoryNames, ImageName : ImageNames]

RECURSIVE SeqsUpTo(_, _)
SeqsUpTo(S, n) ==
    IF n = 0 THEN {<<>>}
    ELSE LET shorter == SeqsUpTo(S, n - 1)
         IN  shorter \cup {Append(s, x) : s \in shorter, x \in S}

Images == SeqsUpTo(Bytes, MaxImageLen)

Range(s) == {s[i] : i \in DOMAIN s}

Init ==
    /\ categories = <<>>
    /\ items = <<>>
    /\ unique \in BOOLEAN
    /\ pc = [p \in Procs |-> "idle"]
    /\ item = [p \in Procs |-> ZeroItem]
    /\ category_id = [p \in Procs |-> 0]
    /\ err = [p \in Procs |-> Nil]
    /\ obs = [p \in Procs |-> NoObs]
    /\ origCategory = <<>>
    /\ calls = 0
    /\ last = NoResponse
    /\ body = NoBody
    /\ files = <<>>

\* ------------------------------------------------------------------ the store
\* INTEGER PRIMARY KEY AUTOINCREMENT on a table no row is ever deleted from.
NextId(table) == Len(table) + 1

\* SELECT id FROM categories WHERE name = ?  with QueryRow + Scan: the first
\* matching row in rowid order, or sql.ErrNoRows.
SelectCategoryIdAlwaysMiss(name) == [err |-> ErrNoRows, id |-> 0]

SelectCategoryId(name) ==
    LET hits == {i \in DOMAIN categories : categories[i].name = name}
    IN  IF hits = {} THEN [err |-> ErrNoRows, id |-> 0]
        ELSE [err |-> Nil,
              id |-> categories[CHOOSE i \in hits : \A j \in hits : i <= j].id]

\* INSERT INTO categories (name) VALUES (?): refused by the store when the
\* schema declares the name UNIQUE and a row of that name exists.
CategoryExecErr(name) ==
    IF unique /\ \E i \in DOMAIN categories : categories[i].name = name
    THEN UniqueViolation ELSE Nil

Return(p, e) ==
    /\ pc' = [pc EXCEPT ![p] = "done"]
    /\ err' = [err EXCEPT ![p] = e]

\* ------------------------------------------------------------------ Insert
\* A goroutine enters Insert(ctx, item).
InsertCall(p, it) ==
    /\ pc[p] \in {"idle", "done"}
    /\ calls < MaxCalls
    /\ calls' = calls + 1
    /\ pc' = [pc EXCEPT ![p] = "lookup"]
    /\ item' = [item EXCEPT ![p] = it]
    /\ category_id' = [category_id EXCEPT ![p] = 0]
    /\ err' = [err EXCEPT ![p] = Nil]
    /\ obs' = [obs EXCEPT ![p] = NoObs]
    /\ last' = NoResponse
    /\ UNCHANGED <<categories, items, unique, origCategory, body, files>>

\* sql.Open, then the first SELECT and its Scan.
InsertLookup(p) ==
    /\ pc[p] = "lookup"
    /\ \E fault \in {"none", "open", "scan"} :
         LET r == SelectCategoryId(item[p].Category)
         IN  IF fault # "none"
             THEN /\ Return(p, StorageError)
                  /\ UNCHANGED <<category_id, obs>>
             ELSE IF r.err = ErrNoRows
             THEN /\ pc' = [pc EXCEPT ![p] = "insertCategory"]
                  /\ obs' = [obs EXCEPT ![p].missed = TRUE]
                  /\ UNCHANGED <<category_id, err>>
             ELSE /\ pc' = [pc EXCEPT ![p] = "insertItem"]
                  /\ category_id' = [category_id EXCEPT ![p] = r.id]
                  /\ UNCHANGED <<obs, err>>
    /\ last' = NoResponse
    /\ UNCHANGED <<categories, items, unique, item, origCategory, calls, body, files>>

\* The category Exec with its error dropped and control falling through.
InsertCategoryNoReturn(p) ==
    /\ pc[p] = "insertCategory"
    /\ \E fault \in BOOLEAN :
         LET execErr == IF fault THEN StorageError
                        ELSE CategoryExecErr(item[p].Category)
         IN  /\ categories' = IF execErr = Nil
                              THEN Append(categories,
                                          [id |-> NextId(categories),
                                           name |-> item[p].Category])
                              ELSE categories
             /\ obs' = [obs EXCEPT ![p].created = (execErr = Nil),
                                   ![p].catExecs = @ + 1]
             /\ pc' = [pc EXCEPT ![p] = "reread"]
             /\ UNCHANGED err
    /\ last' = NoResponse
    /\ UNCHANGED <<items, unique, item, category_id, origCategory, calls, body, files>>

\* The category Exec of the ErrNoRows branch.
InsertCategory(p) ==
    /\ pc[p] = "insertCategory"
    /\ \E fault \in BOOLEAN :
         LET execErr == IF fault THEN StorageError
                        ELSE CategoryExecErr(item[p].Category)
         IN  IF execErr # Nil
             THEN /\ Return(p, execErr)
                  /\ obs' = [obs EXCEPT ![p].catExecs = @ + 1]
                  /\ UNCHANGED categories
             ELSE /\ categories' = Append(categories,
                                          [id |-> NextId(categories),
                                           name |-> item[p].Category])
                  /\ obs' = [obs EXCEPT ![p].created = TRUE, ![p].catExecs = @ + 1]
                  /\ pc' = [pc EXCEPT ![p] = "reread"]
                  /\ UNCHANGED err
    /\ last' = NoResponse
    /\ UNCHANGED <<items, unique, item, category_id, origCategory, calls, body, files>>

\* The re-read with its Scan left out: category_id keeps its zero value.
InsertRereadNoScan(p) ==
    /\ pc[p] = "reread"
    /\ \E fault \in BOOLEAN :
         IF fault
         THEN /\ Return(p, StorageError)
              /\ UNCHANGED category_id
         ELSE /\ pc' = [pc EXCEPT ![p] = "insertItem"]
              /\ UNCHANGED <<category_id, err>>
    /\ last' = NoResponse
    /\ UNCHANGED <<categories, items, unique, item, obs, origCategory, calls,
                   body, files>>

\* The second SELECT and its Scan, after the category row was created.
InsertReread(p) ==
    /\ pc[p] = "reread"
    /\ \E fault \in BOOLEAN :
         LET r == SelectCategoryId(item[p].Category)
         IN  IF fault \/ r.err # Nil
             THEN /\ Return(p, IF fault THEN StorageError ELSE r.err)
                  /\ UNCHANGED category_id
             ELSE /\ pc' = [pc EXCEPT ![p] = "insertItem"]
                  /\ category_id' = [category_id EXCEPT ![p] = r.id]
                  /\ UNCHANGED err
    /\ last' = NoResponse
    /\ UNCHANGED <<categories, items, unique, item, obs, origCategory, calls,
                   body, files>>

\* The item Exec inside a transaction: a failure also undoes the category row
\* this call created.
InsertItemRollback(p) ==
    /\ pc[p] = "insertItem"
    /\ \E fault \in BOOLEAN :
         IF fault
         THEN /\ Return(p, StorageError)
              /\ categories' = IF obs[p].created
                               THEN SelectSeq(categories,
                                              LAMBDA c : c.id # category_id[p])
                               ELSE categories
              /\ UNCHANGED <<items, origCategory, obs>>
         ELSE /\ items' = Append(items, [id |-> NextId(items),
                                         name |-> item[p].Name,
                                         category_id |-> category_id[p],
                                         image_name |-> item[p].ImageName])
              /\ origCategory' = Append(origCategory, item[p].Category)
              /\ obs' = [obs EXCEPT ![p].newId = NextId(items)]
              /\ Return(p, Nil)
              /\ UNCHANGED categories
    /\ last' = NoResponse
    /\ UNCHANGED <<unique, item, category_id, calls, body, files>>

\* INSERT INTO items (name, category_id, image_name) VALUES (?, ?, ?)
InsertItem(p) ==
    /\ pc[p] = "insertItem"
    /\ \E fault \in BOOLEAN :
         IF fault
         THEN /\ Return(p, StorageError)
              /\ UNCHANGED <<items, origCategory, obs>>
         ELSE /\ items' = Append(items, [id |-> NextId(items),
                                         name |-> item[p].Name,
                                         category_id |-> category_id[p],
                                         image_name |-> item[p].ImageName])
              /\ origCategory' = Append(origCategory, item[p].Category)
              /\ obs' = [obs EXCEPT ![p].newId = NextId(items)]
              /\ Return(p, Nil)
    /\ last' = NoResponse
    /\ UNCHANGED <<categories, unique, item, category_id, calls, body, files>>

Insert(p) ==
    \/ \E it \in Items : InsertCall(p, it)
    \/ InsertLookup(p)
    \/ InsertCategory(p)
    \/ InsertReread(p)
    \/ InsertItem(p)

\* ------------------------------------------------------------------ reads
\* One items row joined with the categories rows of its category_id:
\* items inner join categories on items.category_id = categories.id
JoinRow(it) ==
    LET cs == SelectSeq(categories, LAMBDA c : c.id = it.category_id)
    IN  [k \in 1..Len(cs) |->
            [items_id |-> it.id, name |-> it.name, category_id |-> it.category_id,
             image_name |-> it.image_name,
             categories_id |-> cs[k].id, categories_name |-> cs[k].name]]

RECURSIVE JoinFrom(_, _)
JoinFrom(rows, i) ==
    IF i > Len(rows) THEN <<>> ELSE JoinRow(rows[i]) \o JoinFrom(rows, i + 1)

Join(rows) == JoinFrom(rows, 1)

\* Scan of a joined row with the category id taken for the category.
ScanJoinedRowCategoryId(row) ==
    [ID |-> row.items_id, Name |-> row.name,
     Category |-> ToString(row.category_id), ImageName |-> row.image_name]

\* rows.Scan(&items_table_id, &name, &category_id, &imageName,
\*           &categories_table_id, &categories_name) and the Item built from it
ScanJoinedRow(row) ==
    [ID |-> row.items_id, Name |-> row.name,
     Category |-> row.categories_name, ImageName |-> row.image_name]

\* rows.Scan(&id, &name, &category, &imageName) on a bare items row: the
\* integer category_id column is converted into the string field.
ScanItemRow(it) ==
    [ID |-> it.id, Name |-> it.name,
     Category |-> ToString(it.category_id), ImageName |-> it.image_name]

\* GetItems that reports an empty result set as sql.ErrNoRows.
GetItemsResultErrOnEmpty(fault) ==
    LET rows == Join(items)
    IN  IF fault THEN [items |-> <<>>, err |-> StorageError]
        ELSE IF rows = <<>> THEN [items |-> <<>>, err |-> ErrNoRows]
        ELSE [items |-> [k \in 1..Len(rows) |-> ScanJoinedRow(rows[k])], err |-> Nil]

GetItemsResult(fault) ==
    LET rows == Join(items)
    IN  IF fault THEN [items |-> <<>>, err |-> StorageError]
        ELSE [items |-> [k \in 1..Len(rows) |-> ScanJoinedRow(rows[k])], err |-> Nil]

GetItems ==
    /\ \E fault \in BOOLEAN :
         last' = [op |-> "GetItems", fault |-> fault, res |-> GetItemsResult(fault)]
    /\ UNCHANGED <<repoVars, body, files>>

\* The WHERE clause left out: every items row comes back.
KeywordRowsAll(keyword) == items

\* SELECT * FROM items WHERE name = ?
KeywordRows(keyword) == SelectSeq(items, LAMBDA it : it.name = keyword)

GetItemByKeywordResult(keyword, fault) ==
    LET rows == KeywordRows(keyword)
    IN  IF fault THEN [items |-> <<>>, err |-> StorageError]
        ELSE [items |-> [k \in 1..Len(rows) |-> ScanItemRow(rows[k])], err |-> Nil]

Keywords == ItemNames \cup {"x"}

GetItemByKeyword(keyword) ==
    /\ \E fault \in BOOLEAN :
         last' = [op |-> "GetItemByKeyword", keyword |-> keyword, fault |-> fault,
                  res |-> GetItemByKeywordResult(keyword, fault)]
    /\ UNCHANGED <<repoVars, body, files>>

\* GetItemById that hands back the zero Item with a nil error when no row matches.
GetItemByIdResultSilent(id, fault) ==
    LET rows == Join(SelectSeq(items, LAMBDA it : it.id = id))
    IN  IF fault THEN [item |-> ZeroItem, err |-> StorageError]
        ELSE IF rows = <<>> THEN [item |-> ZeroItem, err |-> Nil]
        ELSE [item |-> ScanJoinedRow(rows[1]), err |-> Nil]

\* SELECT * FROM items inner join categories ... WHERE items.id = ?  with
\* QueryRow + Scan: the first row, or sql.ErrNoRows; any error gives Item{}.
GetItemByIdResult(id, fault) ==
    LET rows == Join(SelectSeq(items, LAMBDA it : it.id = id))
    IN  IF fault THEN [item |-> ZeroItem, err |-> StorageError]
        ELSE IF rows = <<>> THEN [item |-> ZeroItem, err |-> ErrNoRows]
        ELSE [item |-> ScanJoinedRow(rows[1]), err |-> Nil]

GetItemById(id) ==
    /\ \E fault \in BOOLEAN :
         last' = [op |-> "GetItemById", id |-> id, fault |-> fault,
                  res |-> GetItemByIdResult(id, fault)]
    /\ UNCHANGED <<repoVars, body, files>>

Read ==
    \/ GetItems
    \/ \E keyword \in Keywords : GetItemByKeyword(keyword)
    \/ \E id \in 0..(Len(items) + 1) : GetItemById(id)

\* ------------------------------------------------------------------ specifications
\* Requests on their own goroutines: Insert calls interleave statement by statement.
Next == (\E p \in Procs : Insert(p)) \/ Read

Spec == Init /\ [][Next]_vars

\* Non-overlapping Insert calls: a call takes its steps while no other is in flight.
Quiescent(p) == pc[p] \in {"idle", "done"}

SeqNext ==
    \/ \E p \in Procs : (\A q \in Procs \ {p} : Quiescent(q)) /\ Insert(p)
    \/ Read

SeqSpec == Init /\ [][SeqNext]_vars

\* ------------------------------------------------------------------ request parsing
FieldNames == {"name", "category"}
FieldValues == {"", "Alice", "people"}

\* Every multipart submission: each text field absent or present with a value,
\* the image part absent or present with a payload.
Bodies ==
    [fields : UNION {[D -> FieldValues] : D \in SUBSET FieldNames},
     file : {NoFile} \cup {[present |-> TRUE, data |-> d] : d \in Images}]

\* A client submits a multipart body.
Submit(b) ==
    /\ body' = b
    /\ last' = NoResponse
    /\ UNCHANGED repoVars

\* The body TestParseAddItemRequest writes for a case: both text fields
\* always, the image part only when the case has image bytes.
TestBody(name, category, image) ==
    [fields |-> [f \in FieldNames |-> IF f = "name" THEN name ELSE category],
     file |-> IF Len(image) > 0 THEN [present |-> TRUE, data |-> image] ELSE NoFile]

BuildTestRequest(name, category, image) ==
    /\ body' = TestBody(name, category, image)
    /\ last' = NoResponse
    /\ UNCHANGED repoVars

\* Named text field lookup: the empty string when the field is absent.
FormValue(b, f) == IF f \in DOMAIN b.fields THEN b.fields[f] ELSE ""

NilRequest == [nil |-> TRUE]

\* A parser that validates the text fields only and takes whatever image it got.
parseAddItemRequestNoImageCheck(b) ==
    IF FormValue(b, "name") = "" \/ FormValue(b, "category") = ""
    THEN [req |-> NilRequest, err |-> ValidationError]
    ELSE [req |-> [Name |-> FormValue(b, "name"),
                   Category |-> FormValue(b, "category"),
                   Image |-> b.file.data],
          err |-> Nil]

parseAddItemRequest(b) ==
    IF \/ FormValue(b, "name") = ""
       \/ FormValue(b, "category") = ""
       \/ ~b.file.present
       \/ Len(b.file.data) = 0
    THEN [req |-> NilRequest, err |-> ValidationError]
    ELSE [req |-> [Name |-> FormValue(b, "name"),
                   Category |-> FormValue(b, "category"),
                   Image |-> b.file.data],
          err |-> Nil]

Parse ==
    /\ last' = [op |-> "parseAddItemRequest", res |-> parseAddItemRequest(body)]
    /\ UNCHANGED <<repoVars, body, files>>

ParseNext ==
    \/ \E b \in Bodies : Submit(b) /\ UNCHANGED files
    \/ \E name \in FieldValues, category \in FieldValues, image \in Images :
         BuildTestRequest(name, category, image) /\ UNCHANGED files
    \/ Parse

ParseSpec == Init /\ [][ParseNext]_vars

\* ------------------------------------------------------------------ image storage
\* The file system after os.Create(fileName) succeeded and Write put the
\* first n bytes of image into the file.
Written(fileName, image, n) ==
    [f \in DOMAIN files \cup {fileName} |->
        IF f = fileName THEN SubSeq(image, 1, n) ELSE files[f]]

\* StoreImage(fileName, image): os.Create may fail (file is then nil and the
\* Write on it fails with os.ErrInvalid); Write may stop after n < len(image)
\* bytes.  Both errors are logged; the function returns nil.
StoreImage(fileName, image) ==
    /\ \E createOk \in BOOLEAN, n \in 0..Len(image) :
         LET createErr == IF createOk THEN Nil ELSE StorageError
             writeErr == IF ~createOk THEN ErrInvalid
                         ELSE IF n < Len(image) THEN StorageError ELSE Nil
         IN  /\ files' = IF createOk THEN Written(fileName, image, n) ELSE files
             /\ last' = [op |-> "StoreImage", fileName |-> fileName, image |-> image,
                         createErr |-> createErr, writeErr |-> writeErr,
                         err |-> Nil]
    /\ UNCHANGED <<repoVars, body>>

ImageNext == \E fileName \in FileNames, image \in Images : StoreImage(fileName, image)

ImageSpec == Init /\ [][ImageNext]_vars

\* ------------------------------------------------------------------ claims
Done(p) == pc[p] = "done"

Succeeded(p) == Done(p) /\ err[p] = Nil

CategoryRowsNamed(name) == {i \in DOMAIN categories : categories[i].name = name}

\* The Item a joined read must give for the row a successful call p inserted.
InsertedItem(p) ==
    [ID |-> obs[p].newId, Name |-> item[p].Name,
     Category |-> item[p].Category, ImageName |-> item[p].ImageName]

\* C1: after a successful Insert whose category name was not in the
\* categories table, GetItemById on the id assigned to the new row returns a
\* nil error and the Item with that id, the inserted name and image name,
\* and the original category NAME.
C1_RoundTrip ==
    \A p \in Procs :
        (/\ Succeeded(p) /\ obs[p].missed
         /\ last.op = "GetItemById" /\ last.id = obs[p].newId /\ ~last.fault)
        => /\ last.res = [item |-> InsertedItem(p), err |-> Nil]
           /\ items[obs[p].newId].id = obs[p].newId
           /\ items[obs[p].newId].name = item[p].Name
           /\ items[obs[p].newId].image_name = item[p].ImageName

C1_Witness ==
    \E p \in Procs :
        /\ Succeeded(p) /\ obs[p].missed /\ obs[p].created
        /\ last.op = "GetItemById" /\ last.id = obs[p].newId /\ ~last.fault
        /\ last.res.item.Category = item[p].Category

\* C2: under non-overlapping Insert calls starting from an empty categories
\* table, no two category rows share a name; once every call made has
\* succeeded the number of category rows is the number of distinct category
\* names inserted; an Insert whose category name is already present executes
\* no category insert and stores the existing row's id.
C2_NoDuplicateCategorySequential ==
    /\ \A i, j \in DOMAIN categories :
           categories[i].name = categories[j].name => i = j
    /\ ((\A p \in Procs : Quiescent(p)) /\ Len(items) = calls)
       => Len(categories) = Cardinality(Range(origCategory))
    /\ \A p \in Procs :
           (Succeeded(p) /\ ~obs[p].missed)
           => /\ obs[p].catExecs = 0
              /\ ~obs[p].created
              /\ \E i \in CategoryRowsNamed(item[p].Category) :
                     categories[i].id = items[obs[p].newId].category_id

C2_Witness ==
    /\ \A p \in Procs : Succeeded(p)
    /\ Len(items) = 2 /\ calls = 2
    /\ Len(categories) = 1
    /\ \E p \in Procs : ~obs[p].missed

\* C3: when the store enforces uniqueness of categories.name, under every
\* interleaving at most one category row of a name exists; and when two
\* calls referencing the same name both missed on their first lookup (and
\* neither met a storage fault), exactly one of them returns an error, the
\* uniqueness violation of its single category insert, and that call
\* inserted no item row.
C3_UniqueStoreOneLoser ==
    unique =>
        /\ \A i, j \in DOMAIN categories :
               categories[i].name = categories[j].name => i = j
        /\ \A p, q \in Procs :
               (/\ p # q /\ Done(p) /\ Done(q)
                /\ item[p].Category = item[q].Category
                /\ obs[p].missed /\ obs[q].missed
                /\ err[p] # StorageError /\ err[q] # StorageError)
               => /\ (err[p] = Nil) # (err[q] = Nil)
                  /\ err[p] # Nil
                     => /\ err[p] = UniqueViolation
                        /\ obs[p].newId = 0
                        /\ obs[p].catExecs = 1

C3_Witness ==
    /\ unique
    /\ \E p, q \in Procs :
           /\ p # q /\ Done(p) /\ Done(q)
           /\ item[p].Category = item[q].Category
           /\ obs[p].missed /\ obs[q].missed
           /\ err[p] = UniqueViolation /\ err[q] = Nil
           /\ Cardinality(CategoryRowsNamed(item[p].Category)) = 1

ItemRowsWithId(id) == {i \in DOMAIN items : items[i].id = id}

\* C4: GetItemById with an id that matches no item row, in any reachable
\* store state, never returns a nil error; unless the storage itself fails
\* it returns sql.ErrNoRows, which is neither nil nor the storage failure,
\* and in every case the zero-value Item.
C4_MissingIdIsNotFound ==
    (last.op = "GetItemById" /\ ItemRowsWithId(last.id) = {})
    => /\ last.res.err # Nil
       /\ last.res.item = ZeroItem
       /\ ~last.fault => /\ last.res.err = ErrNoRows
                         /\ last.res.err \notin {Nil, StorageError}

C4_Witness ==
    /\ last.op = "GetItemById" /\ ItemRowsWithId(last.id) = {} /\ ~last.fault
    /\ items # <<>>
    /\ last.res.err = ErrNoRows

\* C5: GetItemByKeyword(k) returns a nil error and exactly the stored items
\* whose name is k: one result per items row of that name, carrying the
\* row's id, name and image name, and none for a row of another name.
C5_KeywordExactMatch ==
    (last.op = "GetItemByKeyword" /\ ~last.fault)
    => LET r == last.res.items
       IN  /\ last.res.err = Nil
           /\ \A i \in DOMAIN items :
                  Cardinality({k \in DOMAIN r : r[k].ID = items[i].id})
                      = IF items[i].name = last.keyword THEN 1 ELSE 0
           /\ \A k \in DOMAIN r :
                  \E i \in DOMAIN items :
                      /\ r[k].ID = items[i].id
                      /\ r[k].Name = items[i].name
                      /\ r[k].ImageName = items[i].image_name

C5_Witness ==
    /\ last.op = "GetItemByKeyword" /\ ~last.fault /\ last.keyword = "X"
    /\ \E i, j \in DOMAIN items : items[i].name = "X" /\ items[j].name = "Y"
    /\ Len(last.res.items) = 1
    /\ last.res.items[1].Name = "X"

\* C6: GetItems on a store with no item rows returns an empty sequence and
\* a nil error, whether or not category rows exist.
C6_GetItemsEmptyStore ==
    (last.op = "GetItems" /\ ~last.fault /\ items = <<>>)
    => last.res = [items |-> <<>>, err |-> Nil]

C6_Witness ==
    /\ last.op = "GetItems" /\ ~last.fault /\ items = <<>>
    /\ categories # <<>>
    /\ last.res.err = Nil

\* C7: parseAddItemRequest is all-or-nothing: with name, category and image
\* payload all non-empty it returns no error and the request
\* {name, category, image}; with an empty or absent name or category, or an
\* absent or zero-length image part, it returns an error and the nil request.
C7_ParseAllOrNothing ==
    last.op = "parseAddItemRequest"
    => LET name == IF "name" \in DOMAIN body.fields THEN body.fields["name"] ELSE ""
           category == IF "category" \in DOMAIN body.fields
                       THEN body.fields["category"] ELSE ""
           complete == /\ name # "" /\ category # ""
                       /\ body.file.present /\ body.file.data # <<>>
       IN  IF complete
           THEN last.res = [req |-> [Name |-> name, Category |-> category,
                                     Image |-> body.file.data],
                            err |-> Nil]
           ELSE last.res.err # Nil /\ last.res.req = NilRequest

C7_Witness ==
    /\ last.op = "parseAddItemRequest"
    /\ last.res.err = Nil
    /\ last.res.req = [Name |-> "Alice", Category |-> "people", Image |-> <<1, 0>>]

\* C8: StoreImage returns a non-nil error whenever the file cannot be
\* created or the write does not complete, and returns nil only when the
\* bytes were fully written to fileName.
C8_StoreImageReportsFailure ==
    last.op = "StoreImage"
    => /\ (last.createErr # Nil \/ last.writeErr # Nil) => last.err # Nil
       /\ last.err = Nil => /\ last.fileName \in DOMAIN files
                            /\ files[last.fileName] = last.image

\* C9: Insert is not atomic.  When a call created the category row and its
\* item insert then failed, the call returns an error, it inserted no item
\* row, and the category row it created is still in the table.  A call
\* that returns an error from any step inserted no item row, and a call
\* that inserted none returned an error: the items table holds no more
\* rows than calls that have not failed and are not in flight.
FailedOrInFlight == {p \in Procs : pc[p] # "idle" /\ ~Succeeded(p)}

C9_NoRollback ==
    /\ \A p \in Procs :
           (Done(p) /\ obs[p].created /\ category_id[p] # 0 /\ err[p] # Nil)
           => /\ obs[p].newId = 0
              /\ \E i \in CategoryRowsNamed(item[p].Category) :
                     categories[i].id = category_id[p]
    /\ \A p \in Procs : Done(p) => ((err[p] # Nil) <=> (obs[p].newId = 0))
    /\ Len(items) <= calls - Cardinality(FailedOrInFlight)

C9_Witness ==
    \E p \in Procs :
        /\ Done(p) /\ obs[p].missed /\ obs[p].created /\ category_id[p] # 0
        /\ err[p] = StorageError
        /\ items = <<>>
        /\ CategoryRowsNamed(item[p].Category) # {}

\* C10: in every reachable state every item row's category_id is the id of
\* an existing category row, category ids are distinct, and so GetItems
\* returns exactly one Item per stored item row, in row order, each with
\* the row's id, name and image name and with Category equal to the name of
\* the category the item was inserted with.
C10_ReferentialIntegrity ==
    /\ \A i \in DOMAIN items :
           Cardinality({j \in DOMAIN categories :
                           categories[j].id = items[i].category_id}) = 1
    /\ (last.op = "GetItems" /\ ~last.fault)
       => /\ last.res.err = Nil
          /\ Len(last.res.items) = Len(items)
          /\ \A i \in DOMAIN items :
                 last.res.items[i] =
                     [ID |-> items[i].id, Name |-> items[i].name,
                      Category |-> origCategory[i],
                      ImageName |-> items[i].image_name]

C10_Witness ==
    /\ last.op = "GetItems" /\ ~last.fault
    /\ Len(last.res.items) = 2
    /\ ~unique
    /\ Len(categories) = 2 /\ categories[1].name = categories[2].name

====
